---- MODULE Spec2Model ----
(***************************************************************************)
(* Pharmacovigilance dashboard (src/pharmacovigilance_dashboard.py):       *)
(* the SQLite store, the synthetic cohort generator                        *)
(* (populate_synthetic_data) and the three aggregation queries             *)
(* (analyze_adherence_trends, identify_intervention_candidates,            *)
(* visualize_adherence_dashboard), driven as main() drives them.           *)
(*                                                                         *)
(* Dates are day numbers counted from base_date = datetime(2024, 1, 1).    *)
(* An average is kept exactly, as the pair (sum, cnt) of the rows SQLite's *)
(* AVG adds up; cnt = 0 is SQL NULL.  Percentages are whole numbers, so    *)
(* the double sum is exact and the quotient cannot round across 50, 75 or  *)
(* 90 for any row count below 10^13.                                       *)
(***************************************************************************)
EXTENDS Integers, Sequences, FiniteSets, TLC

VARIABLES
    db,               \* the committed contents of the file at db_path
    conn,             \* self.conn: the tables as this connection sees them
    pc,               \* position of the program in main()
    run,              \* which execution of the program this is
    n_patients,       \* argument of populate_synthetic_data
    i,                \* index of the patient loop
    patient_id,       \* index of the medication loop
    num_meds,         \* medications drawn for the current patient
    meds_done,        \* iterations of `for _ in range(num_meds)` completed
    med_id,           \* medication_id counter
    prescribed_date,  \* prescribed_date of the current medication
    day,              \* index of the dose loop
    rng,              \* state of the global pseudo-random stream
    error,            \* the exception that ended the run, if any
    adherence_df,     \* result of analyze_adherence_trends
    intervention_df,  \* result of identify_intervention_candidates
    df_adherence,     \* condition-level table of visualize_adherence_dashboard
    df_meds           \* drug-level table of visualize_adherence_dashboard

genVars == <<n_patients, i, patient_id, num_meds, meds_done, med_id,
             prescribed_date, day, rng>>
outVars == <<adherence_df, intervention_df, df_adherence, df_meds>>
vars == <<db, conn, pc, run, genVars, error, outVars>>

(***************************************************************************)
(* Bounds of the exploration.                                              *)
(***************************************************************************)
MaxPatients == 2        \* largest n_patients passed to the generator
MaxRuns == 2            \* executions of the program on the same db_path
NumSeeds == 3           \* pseudo-random streams explored
MaxExtRows == 3         \* adherence rows of an externally supplied store

NPatientsInputs == (-1)..MaxPatients
Seeds == {42 + k : k \in 0..(NumSeeds - 1)}

(***************************************************************************)
(* Program constants.                                                      *)
(***************************************************************************)
base_date == 0
Genders == <<"M", "F">>
Conditions == <<"Hypertension", "Diabetes", "Heart Disease", "Asthma">>
drugs == <<"Lisinopril", "Metformin", "Atorvastatin", "Amlodipine", "Albuterol">>
Dosage == "1 tablet daily"
DoseChoices == <<0, 1, 1, 1>>
DaysPerMedication == 30
doses_prescribed == 1
AgeLow == 18
AgeHigh == 80
RegWindow == 365
PrescribedWindow == 300
MedsLow == 1
MedsHigh == 4
ExcellentMin == 90
GoodMin == 75
FairMin == 50
InterventionThreshold == 75
InterventionLimit == 20

(***************************************************************************)
(* The pseudo-random stream.  numpy's global generator is one hidden state *)
(* advanced once per draw; every draw of the program is a function of the  *)
(* seed and of the number of draws made before it.  The model keeps that   *)
(* shape with a small linear congruential generator and lets the seed      *)
(* range over Seeds, so that several draw sequences are explored.          *)
(***************************************************************************)
Advance(s) == (75 * s + 74) % 65537

RECURSIVE AdvanceBy(_, _)
AdvanceBy(s, k) == IF k = 0 THEN s ELSE AdvanceBy(Advance(s), k - 1)

\* np.random.randint(low, high): uniform over low..high-1, from stream state s
randint(s, low, high) == low + (s % (high - low))

\* np.random.choice(seq): one element of seq, from stream state s
choice(s, seq) == seq[1 + (s % Len(seq))]

(***************************************************************************)
(* The store.                                                              *)
(***************************************************************************)
NoTables == [created |-> FALSE, patients |-> <<>>, medications |-> <<>>,
             adherence |-> <<>>]

\* a variant that creates the tables afresh (DROP TABLE, then CREATE TABLE)
CreateTablesAfresh(d) == [created |-> TRUE, patients |-> <<>>,
                          medications |-> <<>>, adherence |-> <<>>]

\* CREATE TABLE IF NOT EXISTS, three times, then commit
CreateTablesIfNotExist(d) ==
    IF d.created THEN d
    ELSE [created |-> TRUE, patients |-> <<>>, medications |-> <<>>, adherence |-> <<>>]

Closed == [open |-> FALSE, patients |-> <<>>, medications |-> <<>>,
           adherence |-> <<>>]

Connect(d) == [open |-> TRUE, patients |-> d.patients,
               medications |-> d.medications, adherence |-> d.adherence]

Committed(c) == [created |-> TRUE, patients |-> c.patients,
                 medications |-> c.medications, adherence |-> c.adherence]

PatientIds(t) == {t.patients[k].patient_id : k \in 1..Len(t.patients)}
MedicationIds(t) == {t.medications[k].medication_id : k \in 1..Len(t.medications)}

NoDataFrame == [returned |-> FALSE, rows |-> <<>>]
NoTable == [returned |-> FALSE, rows |-> {}]

(***************************************************************************)
(* main(): dashboard.initialize_database()                                 *)
(***************************************************************************)
InitializeDatabase ==
    /\ pc = "initialize_database"
    /\ db' = CreateTablesIfNotExist(db)
    /\ conn' = Connect(db')
    /\ pc' = "populate_synthetic_data"
    /\ UNCHANGED <<run, genVars, error, outVars>>

(***************************************************************************)
(* populate_synthetic_data(n_patients): entry, np.random.seed              *)
(***************************************************************************)
PopulateBegin ==
    /\ pc = "populate_synthetic_data"
    /\ \E n \in NPatientsInputs, seed \in Seeds :
          /\ n_patients' = n
          /\ rng' = seed
    /\ i' = 1
    /\ pc' = "insert_patients"
    /\ UNCHANGED <<db, conn, run, patient_id, num_meds, meds_done, med_id,
                   prescribed_date, day, error, outVars>>

NewPatient(s, id) ==
    [patient_id |-> id,
     age |-> randint(AdvanceBy(s, 1), AgeLow, AgeHigh),
     gender |-> choice(AdvanceBy(s, 2), Genders),
     chronic_condition |-> choice(AdvanceBy(s, 3), Conditions),
     registration_date |-> base_date + randint(AdvanceBy(s, 4), 0, RegWindow)]

\* one iteration of `for i in range(1, n_patients + 1)`, or the loop's end
InsertPatient ==
    /\ pc = "insert_patients"
    /\ IF i <= n_patients
       THEN IF i \in PatientIds(conn)
            THEN /\ pc' = "failed"
                 /\ error' = "IntegrityError"
                 /\ UNCHANGED <<conn, i, rng, med_id, patient_id>>
            ELSE /\ conn' = [conn EXCEPT !.patients = Append(@, NewPatient(rng, i))]
                 /\ rng' = AdvanceBy(rng, 4)
                 /\ i' = i + 1
                 /\ UNCHANGED <<pc, error, med_id, patient_id>>
       ELSE /\ med_id' = 1
            /\ patient_id' = 1
            /\ pc' = "patient_medications"
            /\ UNCHANGED <<conn, i, rng, error>>
    /\ UNCHANGED <<db, run, n_patients, num_meds, meds_done, prescribed_date,
                   day, outVars>>

NewMedication(s, id, owner) ==
    [medication_id |-> id,
     patient_id |-> owner,
     drug_name |-> choice(AdvanceBy(s, 1), drugs),
     prescribed_date |-> base_date + randint(AdvanceBy(s, 2), 0, PrescribedWindow),
     dosage |-> Dosage]

\* adherence_pct = (doses_taken / doses_prescribed * 100) if doses_prescribed > 0 else 0
AdherencePct(doses_taken) ==
    IF doses_prescribed > 0 THEN (doses_taken * 100) \div doses_prescribed ELSE 0

\* a variant that has already advanced med_id when the doses are written
NewDoseNextMedication(s, t, owner, med, prescribed, d) ==
    LET taken == choice(AdvanceBy(s, 1), DoseChoices)
    IN  [adherence_id |-> Len(t.adherence) + 1,
         patient_id |-> owner,
         medication_id |-> med + 1,
         adherence_date |-> prescribed + d,
         doses_taken |-> taken,
         doses_prescribed |-> doses_prescribed,
         adherence_percentage |-> AdherencePct(taken)]

\* a variant whose day offsets run from 1 to 30
NewDoseNextDay(s, t, owner, med, prescribed, d) ==
    LET taken == choice(AdvanceBy(s, 1), DoseChoices)
    IN  [adherence_id |-> Len(t.adherence) + 1,
         patient_id |-> owner,
         medication_id |-> med,
         adherence_date |-> prescribed + d + 1,
         doses_taken |-> taken,
         doses_prescribed |-> doses_prescribed,
         adherence_percentage |-> AdherencePct(taken)]

\* adherence_id is not given: SQLite assigns the next rowid
NewDose(s, t, owner, med, prescribed, d) ==
    LET taken == choice(AdvanceBy(s, 1), DoseChoices)
    IN  [adherence_id |-> Len(t.adherence) + 1,
         patient_id |-> owner,
         medication_id |-> med,
         adherence_date |-> prescribed + d,
         doses_taken |-> taken,
         doses_prescribed |-> doses_prescribed,
         adherence_percentage |-> AdherencePct(taken)]

\* one iteration of `for patient_id in range(1, n_patients + 1)` up to its
\* draw of num_meds, or the loop's end followed by self.conn.commit()
PatientMedications ==
    /\ pc = "patient_medications"
    /\ IF patient_id <= n_patients
       THEN /\ num_meds' = randint(AdvanceBy(rng, 1), MedsLow, MedsHigh)
            /\ rng' = AdvanceBy(rng, 1)
            /\ meds_done' = 0
            /\ pc' = "insert_medication"
            /\ UNCHANGED db
       ELSE /\ db' = Committed(conn)
            /\ pc' = "analyze_adherence_trends"
            /\ UNCHANGED <<num_meds, rng, meds_done>>
    /\ UNCHANGED <<conn, run, n_patients, i, patient_id, med_id,
                   prescribed_date, day, error, outVars>>

\* one iteration of `for _ in range(num_meds)` up to the medication's
\* INSERT, or the loop's end
InsertMedication ==
    /\ pc = "insert_medication"
    /\ IF meds_done < num_meds
       THEN IF med_id \in MedicationIds(conn)
            THEN /\ pc' = "failed"
                 /\ error' = "IntegrityError"
                 /\ UNCHANGED <<conn, rng, prescribed_date, day, patient_id>>
            ELSE LET m == NewMedication(rng, med_id, patient_id)
                 IN  /\ conn' = [conn EXCEPT !.medications = Append(@, m)]
                     /\ prescribed_date' = m.prescribed_date
                     /\ rng' = AdvanceBy(rng, 2)
                     /\ day' = 0
                     /\ pc' = "insert_doses"
                     /\ UNCHANGED <<error, patient_id>>
       ELSE /\ patient_id' = patient_id + 1
            /\ pc' = "patient_medications"
            /\ UNCHANGED <<conn, rng, prescribed_date, day, error>>
    /\ UNCHANGED <<db, run, n_patients, i, num_meds, meds_done, med_id, outVars>>

\* one iteration of `for day in range(30)`, or the loop's end and med_id += 1
InsertDose ==
    /\ pc = "insert_doses"
    /\ IF day < DaysPerMedication
       THEN /\ conn' = [conn EXCEPT !.adherence =
                          Append(@, NewDose(rng, conn, patient_id, med_id,
                                            prescribed_date, day))]
            /\ rng' = AdvanceBy(rng, 1)
            /\ day' = day + 1
            /\ UNCHANGED <<pc, med_id, meds_done>>
       ELSE /\ med_id' = med_id + 1
            /\ meds_done' = meds_done + 1
            /\ pc' = "insert_medication"
            /\ UNCHANGED <<conn, rng, day>>
    /\ UNCHANGED <<db, run, n_patients, i, patient_id, num_meds,
                   prescribed_date, error, outVars>>

(***************************************************************************)
(* The aggregation queries.  Every one of them reads                       *)
(*     patients p LEFT JOIN adherence a ON p.patient_id = a.patient_id     *)
(* so an adherence row joins the patient whose patient_id it carries, and  *)
(* a patient with no such row joins one row of NULLs.                      *)
(***************************************************************************)
\* indexes of the adherence rows that join patient id
JoinedRows(t, id) == {k \in 1..Len(t.adherence) : t.adherence[k].patient_id = id}

RECURSIVE SumPct(_, _)
SumPct(t, K) ==
    IF K = {} THEN 0
    ELSE LET k == CHOOSE x \in K : TRUE
         IN  t.adherence[k].adherence_percentage + SumPct(t, K \ {k})

\* AVG(a.adherence_percentage) over the joined rows K; cnt = 0 is NULL
Avg(t, K) == [sum |-> SumPct(t, K), cnt |-> Cardinality(K)]

\* COUNT(DISTINCT a.medication_id) over the joined rows K
CountDistinctMeds(t, K) == Cardinality({t.adherence[k].medication_id : k \in K})

IsNull(a) == a.cnt = 0

\* the SQL comparisons avg >= c and avg < c: not true of NULL
AvgGE(a, c) == (~IsNull(a)) /\ a.sum >= c * a.cnt
AvgLT(a, c) == (~IsNull(a)) /\ a.sum < c * a.cnt

\* the order SQLite sorts by: NULL before every number
AvgBefore(a, b) ==
    IF IsNull(b) THEN FALSE
    ELSE IF IsNull(a) THEN TRUE
    ELSE a.sum * b.cnt < b.sum * a.cnt

\* a variant whose bands exclude their lower limits (> for >=)
adherence_category_exclusive(a) ==
    IF (~IsNull(a)) /\ a.sum > ExcellentMin * a.cnt THEN "Excellent"
    ELSE IF (~IsNull(a)) /\ a.sum > GoodMin * a.cnt THEN "Good"
    ELSE IF (~IsNull(a)) /\ a.sum > FairMin * a.cnt THEN "Fair"
    ELSE "Poor"

\* CASE WHEN avg >= 90 ... WHEN avg >= 75 ... WHEN avg >= 50 ... ELSE 'Poor'
adherence_category(a) ==
    IF AvgGE(a, ExcellentMin) THEN "Excellent"
    ELSE IF AvgGE(a, GoodMin) THEN "Good"
    ELSE IF AvgGE(a, FairMin) THEN "Fair"
    ELSE "Poor"

\* the group of patient row p (GROUP BY p.patient_id) in analyze_adherence_trends
TrendRow(t, p) ==
    LET K == JoinedRows(t, p.patient_id)
    IN  [patient_id |-> p.patient_id,
         age |-> p.age,
         chronic_condition |-> p.chronic_condition,
         avg_adherence |-> Avg(t, K),
         num_medications |-> CountDistinctMeds(t, K),
         adherence_category |-> adherence_category(Avg(t, K))]

TrendGroups(t) == {TrendRow(t, t.patients[k]) : k \in 1..Len(t.patients)}

\* the group of patient row p in identify_intervention_candidates
CandidateRow(t, p) ==
    LET K == JoinedRows(t, p.patient_id)
    IN  [patient_id |-> p.patient_id,
         age |-> p.age,
         chronic_condition |-> p.chronic_condition,
         avg_adherence |-> Avg(t, K),
         num_medications |-> CountDistinctMeds(t, K)]

\* a variant that keeps the threshold itself (<= for <)
HavingAtMost(r) ==
    (~IsNull(r.avg_adherence))
        /\ r.avg_adherence.sum <= InterventionThreshold * r.avg_adherence.cnt

\* HAVING AVG(a.adherence_percentage) < 75
Having(r) == AvgLT(r.avg_adherence, InterventionThreshold)

CandidateGroups(t) ==
    {r \in {CandidateRow(t, t.patients[k]) : k \in 1..Len(t.patients)} : Having(r)}

\* ORDER BY avg_adherence DESC / ASC: the sort key is the average alone, and
\* SQL leaves the order of rows with equal keys undefined
OrderedDesc(s) ==
    \A a, b \in 1..Len(s) :
        a < b => ~AvgBefore(s[a].avg_adherence, s[b].avg_adherence)

OrderedAsc(s) ==
    \A a, b \in 1..Len(s) :
        a < b => ~AvgBefore(s[b].avg_adherence, s[a].avg_adherence)

\* the sequences that list every row of R once
Listings(R) ==
    {s \in [1..Cardinality(R) -> R] : \A a, b \in 1..Cardinality(R) : s[a] = s[b] => a = b}

\* LIMIT 20
Limit(s) == SubSeq(s, 1, IF Len(s) < InterventionLimit THEN Len(s) ELSE InterventionLimit)

\* the group of one chronic_condition (GROUP BY p.chronic_condition) in
\* visualize_adherence_dashboard: every joined row of every patient with it
ConditionRows(t, c) ==
    {k \in 1..Len(t.adherence) :
        \E q \in 1..Len(t.patients) :
            /\ t.patients[q].chronic_condition = c
            /\ t.patients[q].patient_id = t.adherence[k].patient_id}

\* a variant that averages the per-patient averages, each patient once
RECURSIVE MeanOfMeans(_, _, _, _)
MeanOfMeans(t, P, acc, n) ==
    IF P = {} THEN [sum |-> acc.sum, cnt |-> acc.cnt * n]
    ELSE LET q == CHOOSE x \in P : TRUE
             a == Avg(t, JoinedRows(t, t.patients[q].patient_id))
         IN  IF IsNull(a) THEN MeanOfMeans(t, P \ {q}, acc, n)
             ELSE MeanOfMeans(t, P \ {q},
                              [sum |-> acc.sum * a.cnt + a.sum * acc.cnt,
                               cnt |-> acc.cnt * a.cnt], n + 1)

ConditionTableByPatient(t) ==
    {[chronic_condition |-> c,
      avg_adherence |->
          MeanOfMeans(t, {q \in 1..Len(t.patients) : t.patients[q].chronic_condition = c},
                      [sum |-> 0, cnt |-> 1], 0)] :
        c \in {t.patients[q].chronic_condition : q \in 1..Len(t.patients)}}

ConditionTable(t) ==
    {[chronic_condition |-> c, avg_adherence |-> Avg(t, ConditionRows(t, c))] :
        c \in {t.patients[q].chronic_condition : q \in 1..Len(t.patients)}}

\* SELECT drug_name, COUNT(*) FROM medications GROUP BY drug_name
DrugTable(t) ==
    {[drug_name |-> d,
      count |-> Cardinality({k \in 1..Len(t.medications) : t.medications[k].drug_name = d})] :
        d \in {t.medications[k].drug_name : k \in 1..Len(t.medications)}}

analyze_adherence_trends ==
    /\ pc = "analyze_adherence_trends"
    /\ \E s \in Listings(TrendGroups(conn)) :
          /\ OrderedDesc(s)
          /\ adherence_df' = [returned |-> TRUE, rows |-> s]
    /\ pc' = "identify_intervention_candidates"
    /\ UNCHANGED <<db, conn, run, genVars, error, intervention_df, df_adherence, df_meds>>

identify_intervention_candidates ==
    /\ pc = "identify_intervention_candidates"
    /\ \E s \in Listings(CandidateGroups(conn)) :
          /\ OrderedAsc(s)
          /\ intervention_df' = [returned |-> TRUE, rows |-> Limit(s)]
    /\ pc' = "visualize_adherence_dashboard"
    /\ UNCHANGED <<db, conn, run, genVars, error, adherence_df, df_adherence, df_meds>>

visualize_adherence_dashboard ==
    /\ pc = "visualize_adherence_dashboard"
    /\ df_adherence' = [returned |-> TRUE, rows |-> ConditionTable(conn)]
    /\ df_meds' = [returned |-> TRUE, rows |-> DrugTable(conn)]
    /\ pc' = "close"
    /\ UNCHANGED <<db, conn, run, genVars, error, adherence_df, intervention_df>>

\* dashboard.close(), the last statement of main()
close ==
    /\ pc = "close"
    /\ conn' = Closed
    /\ pc' = "exited"
    /\ UNCHANGED <<db, run, genVars, error, outVars>>

\* an uncaught exception ends the program: the connection goes with the
\* process, and what it had not committed is rolled back
Crash ==
    /\ pc = "failed"
    /\ conn' = Closed
    /\ pc' = "exited"
    /\ UNCHANGED <<db, run, genVars, error, outVars>>

\* the program is started again on the same db_path
RunAgain ==
    /\ pc = "exited"
    /\ run < MaxRuns
    /\ run' = run + 1
    /\ pc' = "initialize_database"
    /\ n_patients' = 0
    /\ i' = 0
    /\ patient_id' = 0
    /\ num_meds' = 0
    /\ meds_done' = 0
    /\ med_id' = 0
    /\ prescribed_date' = 0
    /\ day' = 0
    /\ rng' = 0
    /\ error' = "none"
    /\ adherence_df' = NoDataFrame
    /\ intervention_df' = NoDataFrame
    /\ df_adherence' = NoTable
    /\ df_meds' = NoTable
    /\ UNCHANGED <<db, conn>>

Init ==
    /\ db = NoTables
    /\ conn = Closed
    /\ pc = "initialize_database"
    /\ run = 1
    /\ n_patients = 0
    /\ i = 0
    /\ patient_id = 0
    /\ num_meds = 0
    /\ meds_done = 0
    /\ med_id = 0
    /\ prescribed_date = 0
    /\ day = 0
    /\ rng = 0
    /\ error = "none"
    /\ adherence_df = NoDataFrame
    /\ intervention_df = NoDataFrame
    /\ df_adherence = NoTable
    /\ df_meds = NoTable

Next ==
    \/ InitializeDatabase
    \/ PopulateBegin
    \/ InsertPatient
    \/ PatientMedications
    \/ InsertMedication
    \/ InsertDose
    \/ analyze_adherence_trends
    \/ identify_intervention_candidates
    \/ visualize_adherence_dashboard
    \/ close
    \/ Crash
    \/ RunAgain

Spec == Init /\ [][Next]_vars

(***************************************************************************)
(* The aggregation queries over a store that was supplied from outside:    *)
(* db_path names a file the generator did not write.  SQLite does not      *)
(* enforce the FOREIGN KEY clauses (the program never turns the pragma     *)
(* on), so such a store may hold adherence rows whose patient_id or        *)
(* medication_id names no row, and patients with no adherence row.         *)
(***************************************************************************)
ExtPatientIds == {1, 2}
ExtConditions == {Conditions[1], Conditions[2]}

\* (patient_id, medication_id) of an external adherence row: medication 3
\* and patient 3 are in no table
ExtReferences == <<(<<1, 1>>), (<<2, 2>>), (<<2, 3>>), (<<3, 1>>)>>

\* (doses_taken, doses_prescribed) of an external adherence row
ExtDoses == <<(<<0, 1>>), (<<1, 2>>), (<<9, 10>>), (<<1, 1>>)>>

ExtRowTypes == 1..(Len(ExtReferences) * Len(ExtDoses))

ExtRow(id, ty) ==
    LET ref == ExtReferences[1 + ((ty - 1) \div Len(ExtDoses))]
        dose == ExtDoses[1 + ((ty - 1) % Len(ExtDoses))]
    IN  [adherence_id |-> id,
         patient_id |-> ref[1],
         medication_id |-> ref[2],
         adherence_date |-> base_date,
         doses_taken |-> dose[1],
         doses_prescribed |-> dose[2],
         adherence_percentage |-> (dose[1] * 100) \div dose[2]]

ExtPatient(id, c) ==
    [patient_id |-> id, age |-> 40 + id, gender |-> Genders[1],
     chronic_condition |-> c, registration_date |-> base_date]

ExtMedication(id) ==
    [medication_id |-> id, patient_id |-> id, drug_name |-> drugs[id],
     prescribed_date |-> base_date, dosage |-> Dosage]

\* the patients tables: any of the patients 1 and 2, in rowid order
ExtPatientTables ==
    {<<>>}
    \cup {<<ExtPatient(id, c)>> : id \in ExtPatientIds, c \in ExtConditions}
    \cup {<<ExtPatient(1, c), ExtPatient(2, e)>> : c \in ExtConditions, e \in ExtConditions}

\* the adherence tables: up to MaxExtRows rows, listed by row type
ExtAdherenceTables ==
    UNION {{[k \in 1..n |-> ExtRow(k, f[k])] :
              f \in {g \in [1..n -> ExtRowTypes] :
                        \A a \in 1..n : \A b \in 1..n : a < b => g[a] <= g[b]}} :
           n \in 0..MaxExtRows}

InitExt ==
    /\ \E ps \in ExtPatientTables, as \in ExtAdherenceTables :
          db = [created |-> TRUE, patients |-> ps,
                medications |-> <<ExtMedication(1), ExtMedication(2)>>,
                adherence |-> as]
    /\ conn = Connect(db)
    /\ pc = "analyze_adherence_trends"
    /\ run = 1
    /\ n_patients = 0
    /\ i = 0
    /\ patient_id = 0
    /\ num_meds = 0
    /\ meds_done = 0
    /\ med_id = 0
    /\ prescribed_date = 0
    /\ day = 0
    /\ rng = 0
    /\ error = "none"
    /\ adherence_df = NoDataFrame
    /\ intervention_df = NoDataFrame
    /\ df_adherence = NoTable
    /\ df_meds = NoTable

NextAgg ==
    \/ analyze_adherence_trends
    \/ identify_intervention_candidates
    \/ visualize_adherence_dashboard
    \/ close

SpecAgg == InitExt /\ [][NextAgg]_vars
(***************************************************************************)
(* Properties.                                                             *)
(***************************************************************************)
\* the adherence rows of store d that carry patient id, and their total
DoseRecordsOf(d, id) == {k \in 1..Len(d.adherence) : d.adherence[k].patient_id = id}

RECURSIVE TotalPct(_, _)
TotalPct(d, K) ==
    IF K = {} THEN 0
    ELSE LET k == CHOOSE x \in K : TRUE
         IN  d.adherence[k].adherence_percentage + TotalPct(d, K \ {k})

Labels == {"Excellent", "Good", "Fair", "Poor"}

\* C1: in the per-patient summary every patient with zero dose records has
\* a null avg_adherence and a category that is none of Excellent, Good,
\* Fair, Poor.
C1_NoRecordsUndefined ==
    adherence_df.returned =>
        \A k \in 1..Len(adherence_df.rows) :
            LET r == adherence_df.rows[k]
            IN  DoseRecordsOf(db, r.patient_id) = {} =>
                    /\ r.avg_adherence.cnt = 0
                    /\ r.adherence_category \notin Labels

\* exact fractions, for means of means
Frac(n, d) == [num |-> n, den |-> d]
FracAdd(x, y) == Frac(x.num * y.den + y.num * x.den, x.den * y.den)
FracEq(x, y) == x.num * y.den = y.num * x.den

\* the patients of store d with condition c that have at least one record
RecordedPatients(d, c) ==
    {q \in 1..Len(d.patients) :
        /\ d.patients[q].chronic_condition = c
        /\ DoseRecordsOf(d, d.patients[q].patient_id) # {}}

RECURSIVE SumOfMeans(_, _)
SumOfMeans(d, Q) ==
    IF Q = {} THEN Frac(0, 1)
    ELSE LET q == CHOOSE x \in Q : TRUE
             K == DoseRecordsOf(d, d.patients[q].patient_id)
         IN  FracAdd(Frac(TotalPct(d, K), Cardinality(K)), SumOfMeans(d, Q \ {q}))

RECURSIVE SumOfTotals(_, _)
SumOfTotals(d, Q) ==
    IF Q = {} THEN 0
    ELSE LET q == CHOOSE x \in Q : TRUE
         IN  TotalPct(d, DoseRecordsOf(d, d.patients[q].patient_id))
                 + SumOfTotals(d, Q \ {q})

RECURSIVE SumOfCounts(_, _)
SumOfCounts(d, Q) ==
    IF Q = {} THEN 0
    ELSE LET q == CHOOSE x \in Q : TRUE
         IN  Cardinality(DoseRecordsOf(d, d.patients[q].patient_id))
                 + SumOfCounts(d, Q \ {q})

\* the value of a condition-level row, as a fraction (the row is not null)
RowValue(r) == Frac(r.avg_adherence.sum, r.avg_adherence.cnt)

MeanBelow(d, id1, id2) ==
    LET K1 == DoseRecordsOf(d, id1)
        K2 == DoseRecordsOf(d, id2)
    IN  TotalPct(d, K1) * Cardinality(K2) < TotalPct(d, K2) * Cardinality(K1)

MeanEqual(d, id1, id2) ==
    LET K1 == DoseRecordsOf(d, id1)
        K2 == DoseRecordsOf(d, id2)
    IN  TotalPct(d, K1) * Cardinality(K2) = TotalPct(d, K2) * Cardinality(K1)

\* id1 comes before id2 in the order avg_adherence ascending, then patient_id
\* ascending
WorseFirst(d, id1, id2) ==
    \/ MeanBelow(d, id1, id2)
    \/ MeanEqual(d, id1, id2) /\ id1 < id2

\* the patients of store d with a non-null average below 75
Qualifying(d) ==
    {id \in PatientIds(d) :
        /\ DoseRecordsOf(d, id) # {}
        /\ TotalPct(d, DoseRecordsOf(d, id)) < 75 * Cardinality(DoseRecordsOf(d, id))}

Returned == {intervention_df.rows[k].patient_id : k \in 1..Len(intervention_df.rows)}

\* C3: the intervention list is in the order avg_adherence ascending with
\* ties by patient_id ascending, and it is the first 20 qualifying patients
\* of that order.
C3_WorstFirstTiesById ==
    intervention_df.returned =>
        /\ \A a, b \in 1..Len(intervention_df.rows) :
              a < b => WorseFirst(db, intervention_df.rows[a].patient_id,
                                      intervention_df.rows[b].patient_id)
        /\ \A id \in Qualifying(db) \ Returned :
              \A got \in Returned : WorseFirst(db, got, id)
        /\ Len(intervention_df.rows)
              = (IF Cardinality(Qualifying(db)) < 20
                 THEN Cardinality(Qualifying(db)) ELSE 20)

\* C4: the intervention list never holds a patient whose average is 75 or
\* more, nor one with no dose record (a null average).
C4_NoHighOrNull ==
    intervention_df.returned =>
        \A k \in 1..Len(intervention_df.rows) :
            LET r == intervention_df.rows[k]
                K == DoseRecordsOf(db, r.patient_id)
            IN  /\ K # {}
                /\ TotalPct(db, K) < 75 * Cardinality(K)
                /\ r.avg_adherence.cnt # 0
                /\ r.avg_adherence.sum < 75 * r.avg_adherence.cnt

\* C4 witness: the list was returned with one patient on it while another
\* patient, whose average is exactly 75, was left out.
C4_BoundaryLeftOut ==
    /\ intervention_df.returned
    /\ Len(intervention_df.rows) = 1
    /\ \E id \in PatientIds(db) \ Returned :
          LET K == DoseRecordsOf(db, id)
          IN  K # {} /\ TotalPct(db, K) = 75 * Cardinality(K)

\* populate_synthetic_data has returned to main()
PopulateReturned ==
    pc \in {"analyze_adherence_trends", "identify_intervention_candidates",
            "visualize_adherence_dashboard", "close"}

\* C5: generation with n_patients <= 0 is rejected with InvalidConfiguration:
\* the call does not return normally and creates no row.
C5_NonPositiveRejected ==
    (PopulateReturned /\ n_patients <= 0) => error = "InvalidConfiguration"

\* store d holds an adherence row that names no patient or no medication
Dangling(d) ==
    \E k \in 1..Len(d.adherence) :
        \/ d.adherence[k].patient_id \notin PatientIds(d)
        \/ d.adherence[k].medication_id \notin MedicationIds(d)

\* C6: over a store with a dangling dose record no aggregation returns a
\* result; it aborts with DataIntegrityError.
C6_DanglingAborts ==
    Dangling(db) =>
        /\ ~adherence_df.returned
        /\ ~intervention_df.returned
        /\ ~df_adherence.returned

\* C7: a non-null average gets exactly the label of its band: >= 90
\* Excellent, 75 up to 90 Good, 50 up to 75 Fair, below 50 Poor, each lower
\* limit belonging to the upper band.
C7_CategoryBands ==
    adherence_df.returned =>
        \A k \in 1..Len(adherence_df.rows) :
            LET r == adherence_df.rows[k]
                K == DoseRecordsOf(db, r.patient_id)
                t == TotalPct(db, K)
                n == Cardinality(K)
            IN  n > 0 =>
                    /\ r.avg_adherence.cnt # 0
                    /\ r.avg_adherence.sum * n = t * r.avg_adherence.cnt
                    /\ (t >= 90 * n) <=> (r.adherence_category = "Excellent")
                    /\ (t >= 75 * n /\ t < 90 * n) <=> (r.adherence_category = "Good")
                    /\ (t >= 50 * n /\ t < 75 * n) <=> (r.adherence_category = "Fair")
                    /\ (t < 50 * n) <=> (r.adherence_category = "Poor")

\* C7 witness: the summary holds a patient whose average is exactly 75 and
\* one whose average is exactly 50.
C7_OnBoundaries ==
    /\ adherence_df.returned
    /\ \E k \in 1..Len(adherence_df.rows) :
          LET K == DoseRecordsOf(db, adherence_df.rows[k].patient_id)
          IN  K # {} /\ TotalPct(db, K) = 75 * Cardinality(K)
    /\ \E k \in 1..Len(adherence_df.rows) :
          LET K == DoseRecordsOf(db, adherence_df.rows[k].patient_id)
          IN  K # {} /\ TotalPct(db, K) = 50 * Cardinality(K)

\* the rows a step adds to a table of the connection
Added(before, after) == {after[k] : k \in (Len(before) + 1)..Len(after)}

\* every medication and dose record of tables t names a row that exists
References(t) ==
    /\ \A k \in 1..Len(t.medications) : t.medications[k].patient_id \in PatientIds(t)
    /\ \A k \in 1..Len(t.adherence) :
          \E m \in 1..Len(t.medications) :
              /\ t.medications[m].medication_id = t.adherence[k].medication_id
              /\ t.medications[m].patient_id = t.adherence[k].patient_id

\* C8: at every step of the generation and after it, a medication row is
\* added only for a patient that is already there, a dose record only for
\* a medication that is already there and is owned by the record's patient,
\* and every stored reference names an existing row.
C8_ReferentialIntegrity ==
    [][/\ (conn.open /\ conn'.open) =>
             /\ \A m \in Added(conn.medications, conn'.medications) :
                   m.patient_id \in PatientIds(conn)
             /\ \A a \in Added(conn.adherence, conn'.adherence) :
                   \E k \in 1..Len(conn.medications) :
                       /\ conn.medications[k].medication_id = a.medication_id
                       /\ conn.medications[k].patient_id = a.patient_id
        /\ References(conn')
        /\ References(db')]_vars

\* C8 witness: the generator is in the middle of the dose records of a
\* second medication, nothing committed yet.
C8_MidGeneration ==
    /\ pc = "insert_doses"
    /\ day > 0
    /\ day < 30
    /\ Len(conn.medications) >= 2
    /\ db.patients = <<>>

\* the dose records of medication row m in store d
RecordsOfMedication(d, m) ==
    {k \in 1..Len(d.adherence) : d.adherence[k].medication_id = m.medication_id}

\* C9: once generation has completed, every medication has exactly 30 dose
\* records, one for each date prescribed_date + 0..29, and every generated
\* patient has a medication.
C9_ThirtyDosesPerMedication ==
    PopulateReturned =>
        /\ \A k \in 1..Len(db.medications) :
              LET m == db.medications[k]
                  R == RecordsOfMedication(db, m)
              IN  /\ Cardinality(R) = 30
                  /\ \A d \in 0..29 :
                        Cardinality({x \in R :
                            db.adherence[x].adherence_date = m.prescribed_date + d}) = 1
        /\ n_patients > 0 =>
              \A id \in 1..n_patients :
                  \E k \in 1..Len(db.medications) : db.medications[k].patient_id = id

\* C9 witness: generation for n_patients > 0 has completed and one patient
\* got more than one medication.
C9_GenerationCompleted ==
    /\ pc = "analyze_adherence_trends"
    /\ n_patients > 0
    /\ \E a, b \in 1..Len(db.medications) :
          a # b /\ db.medications[a].patient_id = db.medications[b].patient_id

\* C10: once a cohort is committed, running the program again on the same
\* db_path changes no committed row: initialize_database keeps the tables
\* and rows, and a populate for n_patients >= 1 fails at its first patient
\* insert, before it has inserted anything.
C10_SecondRunKeepsCohort ==
    [][db.patients # <<>> =>
          /\ db' = db
          /\ (pc = "initialize_database") =>
                /\ conn'.patients = db.patients
                /\ conn'.medications = db.medications
                /\ conn'.adherence = db.adherence
          /\ (pc = "insert_patients" /\ n_patients >= 1) =>
                /\ i = 1
                /\ pc' = "failed"
                /\ error' = "IntegrityError"
                /\ conn' = conn]_vars

\* C10 witness: the second run's populate has failed over a committed cohort.
C10_SecondRunFailed ==
    /\ run = 2
    /\ pc = "failed"
    /\ error = "IntegrityError"
    /\ db.patients # <<>>
    /\ db.adherence # <<>>
====
